---- MODULE Spec2Model ----
(***************************************************************************)
(* WeatherApp: the poll loop (app.py), the multi-source aggregator         *)
(* (data_sources.py) and the three source clients (weather_api.py,         *)
(* weathermap_api.py, weather_data_api.py), with the log shipper           *)
(* (logz_api.py) as an outbound call that returns or raises.               *)
(***************************************************************************)
EXTENDS Integers, Sequences, FiniteSets, TLC

\* ---------------------------------------------------------------- bounds
MaxCities == 2
MaxSources == 3
MaxRows == 2
MaxInterval == 2

CityNames == {"Berlin", "Sydney"}
\* identifiers a caller may pass: the three sources and one value on either side
SourceIds == {0, 1, 2, 3, 4}
\* what a provider does with one request: a full answer, an answer whose
\* description is null, an answer lacking required fields, a transport error
Kinds == {"ok", "null", "malformed", "neterror"}
\* the answers to the requests of one invocation: the well-formed ones agree on
\* the description, and no request follows a failed one (the entries after a
\* failure repeat it)
Envs(n) ==
    {env \in [1..n -> Kinds] :
        /\ \A a, b \in 1..n : ~(env[a] = "ok" /\ env[b] = "null")
        /\ \A a \in 1..n : \A b \in (a + 1)..n :
               env[a] \in {"malformed", "neterror"} => env[b] = env[a]}

SeqsUpTo(S, n) == UNION {[1..m -> S] : m \in 0..n}

\* ------------------------------------------------- python values, outcomes
Ok(v) == [exc |-> "None", val |-> v]
Raise(e) == [exc |-> e, val |-> <<>>]
EmptyDict == [x \in {} |-> <<>>]
\* mutant: setdefault, the first value stored under a key is kept
dict_set_first_wins(d, key, v) ==
    IF key \in DOMAIN d THEN d
    ELSE [x \in DOMAIN d \cup {key} |-> IF x = key THEN v ELSE d[x]]

dict_set(d, key, v) == [x \in DOMAIN d \cup {key} |-> IF x = key THEN v ELSE d[x]]
NotReturned == [pending |-> "get_weather"]

\* ------------------------------------------------------- provider A client
\* the JSON body provider A answers to a request for `city`
WeatherAPI_response(city, kind) ==
    CASE kind = "ok" ->
           [location |-> [name |-> city],
            current |-> [temp_c |-> 18, condition |-> [text |-> "Scattered clouds"]]]
      [] kind = "null" ->
           [location |-> [name |-> city],
            current |-> [temp_c |-> 18, condition |-> [text |-> "null"]]]
      [] OTHER -> [location |-> [name |-> city]]

WeatherAPI_transform_response(weather_data) ==
    IF "location" \notin DOMAIN weather_data THEN Raise("AttributeError")
    ELSE IF "current" \notin DOMAIN weather_data THEN Raise("AttributeError")
    ELSE IF "condition" \notin DOMAIN weather_data.current THEN Raise("AttributeError")
    ELSE Ok([city |-> weather_data.location.name,
             temperature |-> weather_data.current.temp_c,
             description |-> weather_data.current.condition.text])

\* mutant: result.insert(0, data) in place of result.append(data)
RECURSIVE WeatherAPI_loop_prepend(_, _, _, _)
WeatherAPI_loop_prepend(cities_, env, n, result_) ==
    IF n > Len(cities_) THEN Ok(result_)
    ELSE IF env[n] = "neterror" THEN Raise("ConnectionError")
    ELSE LET data == WeatherAPI_transform_response(WeatherAPI_response(cities_[n], env[n]))
         IN  IF data.exc # "None" THEN Raise(data.exc)
             ELSE WeatherAPI_loop_prepend(cities_, env, n + 1, <<data.val>> \o result_)

RECURSIVE WeatherAPI_loop(_, _, _, _)
WeatherAPI_loop(cities_, env, n, result_) ==
    IF n > Len(cities_) THEN Ok(result_)
    ELSE IF env[n] = "neterror" THEN Raise("ConnectionError")
    ELSE LET data == WeatherAPI_transform_response(WeatherAPI_response(cities_[n], env[n]))
         IN  IF data.exc # "None" THEN Raise(data.exc)
             ELSE WeatherAPI_loop(cities_, env, n + 1, Append(result_, data.val))

WeatherAPI_get_weather(cities_, env) == WeatherAPI_loop(cities_, env, 1, <<>>)

\* ------------------------------------------------------- provider B client
WeathermapAPI_response(city, kind) ==
    CASE kind = "ok" ->
           [name |-> city, main |-> [temp |-> 22], weather |-> <<[description |-> "Sunny"]>>]
      [] kind = "null" ->
           [name |-> city, main |-> [temp |-> 22], weather |-> <<[description |-> "null"]>>]
      [] OTHER -> [name |-> city, main |-> [temp |-> 22], weather |-> <<>>]

WeathermapAPI_transform_response(weather_data) ==
    IF "main" \notin DOMAIN weather_data THEN Raise("AttributeError")
    ELSE IF "weather" \notin DOMAIN weather_data THEN Raise("TypeError")
    ELSE IF Len(weather_data.weather) = 0 THEN Raise("IndexError")
    ELSE Ok([city |-> weather_data.name,
             temperature |-> weather_data.main.temp,
             description |-> weather_data.weather[1].description])

RECURSIVE WeathermapAPI_loop(_, _, _, _)
WeathermapAPI_loop(cities_, env, n, result_) ==
    IF n > Len(cities_) THEN Ok(result_)
    ELSE IF env[n] = "neterror" THEN Raise("ConnectionError")
    ELSE LET data == WeathermapAPI_transform_response(WeathermapAPI_response(cities_[n], env[n]))
         IN  IF data.exc # "None" THEN Raise(data.exc)
             ELSE WeathermapAPI_loop(cities_, env, n + 1, Append(result_, data.val))

WeathermapAPI_get_weather(cities_, env) == WeathermapAPI_loop(cities_, env, 1, <<>>)

\* ------------------------------------------------------- local file client
\* a row of weather_data.csv as csv.DictReader yields it (all fields strings)
Row(c) == [city |-> c, temperature |-> "20", description |-> "Clear"]
Databases == SeqsUpTo({Row(c) : c \in CityNames}, MaxRows)

\* the inner loop, `for city in cities`, for one row
RECURSIVE WeatherDataAPI_inner(_, _, _, _)
WeatherDataAPI_inner(city_data, cities_, c, result_) ==
    IF c > Len(cities_) THEN result_
    ELSE WeatherDataAPI_inner(city_data, cities_, c + 1,
             IF cities_[c] = city_data.city THEN Append(result_, city_data) ELSE result_)

\* the outer loop, `for city_data in data`
RECURSIVE WeatherDataAPI_outer(_, _, _, _)
WeatherDataAPI_outer(data, cities_, r, result_) ==
    IF r > Len(data) THEN result_
    ELSE WeatherDataAPI_outer(data, cities_, r + 1,
             WeatherDataAPI_inner(data[r], cities_, 1, result_))

WeatherDataAPI_get_weather(cities_, data) == Ok(WeatherDataAPI_outer(data, cities_, 1, <<>>))

\* ------------------------------------------------------------------ state
VARIABLES
    pc,                 \* position of the poll loop in WeatherApp.lifecycle
    shutdown_requested, \* WeatherApp.shutdown_requested
    interval,           \* lifecycle's local `interval`
    slept,              \* iterations `for _ in range(duration)` has completed
    sleep_from,         \* call site of _interruptible_sleep: "try" (line 51) or "except" (line 58)
    polled_data,        \* lifecycle's local `polled_data`
    exc,                \* the exception in flight / bound to `e`
    apc,                \* position inside WeatherDataSources.get_weather
    cities, sources,    \* arguments of get_weather
    k,                  \* position of `for source in sources` (second loop)
    result,             \* get_weather's local `result`
    ret,                \* value get_weather returned
    db,                 \* rows of weather_data.csv
    calls,              \* history: Source Client invocations of the current get_weather call
    sig_at,             \* history: pc at which the first signal was delivered
    units_after,        \* history: time.sleep(1) calls completed after the first signal
    tick_after,         \* history: a tick was started after the first signal
    exit_by             \* history: the statement that left the loop ("while" or "break")

vars == <<pc, shutdown_requested, interval, slept, sleep_from, polled_data, exc,
          apc, cities, sources, k, result, ret, db, calls,
          sig_at, units_after, tick_after, exit_by>>

loop_vars == <<pc, shutdown_requested, interval, slept, sleep_from, polled_data,
               sig_at, units_after, tick_after, exit_by>>
agg_vars == <<apc, cities, sources, k, result, ret, calls>>

\* ------------------------------------------------------------- aggregator
\* mutant: only the first identifier is validated
validate_first_only(sources_, n) ==
    ~(sources_[1] # 1 /\ sources_[1] # 2 /\ sources_[1] # 3)

RECURSIVE validate_sources(_, _)
validate_sources(sources_, n) ==
    IF n > Len(sources_) THEN TRUE
    ELSE IF sources_[n] # 1 /\ sources_[n] # 2 /\ sources_[n] # 3 THEN FALSE
    ELSE validate_sources(sources_, n + 1)

\* mutant: the sources check precedes the cities check
get_weather_checks_sources_first(cities_, sources_) ==
    IF Len(sources_) = 0 THEN "no data sources were provided"
    ELSE IF Len(cities_) = 0 THEN "no cities were provided"
    ELSE IF ~validate_sources(sources_, 1) THEN "no valid data sources were provided"
    ELSE "None"

\* mutant: the empty-sources check is missing
get_weather_checks_no_sources_check(cities_, sources_) ==
    IF Len(cities_) = 0 THEN "no cities were provided"
    ELSE IF ~validate_sources(sources_, 1) THEN "no valid data sources were provided"
    ELSE "None"

\* the three early returns of get_weather; "None" when none is taken
get_weather_checks(cities_, sources_) ==
    IF Len(cities_) = 0 THEN "no cities were provided"
    ELSE IF Len(sources_) = 0 THEN "no data sources were provided"
    ELSE IF ~validate_sources(sources_, 1) THEN "no valid data sources were provided"
    ELSE "None"

\* mutant: every branch stores under the first branch's key
result_key_copied(source) == "source_1_result"

result_key(source) ==
    CASE source = 1 -> "source_1_result"
      [] source = 2 -> "source_2_result"
      [] source = 3 -> "source_3_result"

\* the Source Client the if/elif chain selects
invoke_client(source, cities_, env, data) ==
    CASE source = 1 -> WeatherAPI_get_weather(cities_, env)
      [] source = 2 -> WeathermapAPI_get_weather(cities_, env)
      [] source = 3 -> WeatherDataAPI_get_weather(cities_, data)

get_weather_entry ==
    /\ apc = "entry"
    /\ LET w == get_weather_checks(cities, sources)
       IN  IF w # "None"
           THEN /\ ret' = [warning |-> w]
                /\ apc' = "returned"
                /\ UNCHANGED <<result, k>>
           ELSE /\ result' = EmptyDict
                /\ k' = 1
                /\ apc' = "fetch"
                /\ UNCHANGED ret
    /\ UNCHANGED <<loop_vars, exc, cities, sources, db, calls>>

\* one iteration of `for source in sources` of lines 32-41
fetch_source ==
    /\ apc = "fetch"
    /\ k <= Len(sources)
    /\ IF sources[k] \in {1, 2, 3}
       THEN \E env \in Envs(Len(cities)) :
              LET out == invoke_client(sources[k], cities, env, db)
              IN  /\ calls' = Append(calls, [source |-> sources[k], cities |-> cities,
                                             exc |-> out.exc, val |-> out.val])
                  /\ IF out.exc # "None"
                     THEN /\ exc' = out.exc
                          /\ apc' = "raised"
                          /\ UNCHANGED <<result, k>>
                     ELSE /\ result' = dict_set(result, result_key(sources[k]), out.val)
                          /\ k' = k + 1
                          /\ UNCHANGED <<exc, apc>>
       ELSE /\ k' = k + 1
            /\ UNCHANGED <<calls, exc, apc, result>>
    /\ UNCHANGED <<loop_vars, cities, sources, ret, db>>

get_weather_return ==
    /\ apc = "fetch"
    /\ k > Len(sources)
    /\ ret' = result
    /\ apc' = "returned"
    /\ UNCHANGED <<loop_vars, exc, cities, sources, k, result, db, calls>>

\* -------------------------------------------------------------- poll loop
\* `while not self.shutdown_requested`, and the call of line 42 when it holds
lifecycle_while ==
    /\ pc = "while"
    /\ IF shutdown_requested
       THEN /\ pc' = "stopped"
            /\ exit_by' = "while"
            /\ UNCHANGED <<agg_vars, tick_after>>
       ELSE /\ pc' = "get_weather"
            /\ apc' = "entry"
            /\ cities' = <<"Berlin", "Sydney">>
            /\ sources' = <<1, 2, 3>>
            /\ k' = 0
            /\ result' = EmptyDict
            /\ ret' = NotReturned
            /\ calls' = <<>>
            /\ tick_after' = (tick_after \/ sig_at # "none")
            /\ UNCHANGED exit_by
    /\ UNCHANGED <<shutdown_requested, interval, slept, sleep_from, polled_data, exc,
                   db, sig_at, units_after>>

\* get_weather's frame is gone once control is back in lifecycle
frame_exit ==
    /\ apc' = "idle"
    /\ cities' = <<>>
    /\ sources' = <<>>
    /\ k' = 0
    /\ result' = EmptyDict
    /\ ret' = NotReturned
    /\ calls' = <<>>

\* get_weather returned: lines 42-46
lifecycle_polled ==
    /\ pc = "get_weather"
    /\ apc = "returned"
    /\ polled_data' = ret
    /\ pc' = "post_log"
    /\ frame_exit
    /\ UNCHANGED <<shutdown_requested, interval, slept, sleep_from, exc, db,
                   sig_at, units_after, tick_after, exit_by>>

\* get_weather raised: control passes to the handler of line 52
lifecycle_poll_raised ==
    /\ pc = "get_weather"
    /\ apc = "raised"
    /\ pc' = "except"
    /\ frame_exit
    /\ UNCHANGED <<shutdown_requested, interval, slept, sleep_from, polled_data, exc,
                   db, sig_at, units_after, tick_after, exit_by>>

\* mutant: post_log is called outside the try block, its exception ends the process
post_log_uncaught ==
    /\ pc = "post_log"
    /\ \E outcome \in {"response", "ConnectionError"} :
         IF outcome = "response"
         THEN /\ pc' = "sleep_for"
              /\ sleep_from' = "try"
              /\ slept' = 0
              /\ UNCHANGED <<exc, exit_by>>
         ELSE /\ pc' = "stopped"
              /\ exc' = outcome
              /\ exit_by' = "raise"
              /\ UNCHANGED <<sleep_from, slept>>
    /\ UNCHANGED <<shutdown_requested, interval, polled_data, agg_vars, db,
                   sig_at, units_after, tick_after>>

\* LogzAPI.post_log returns a response or raises; then line 51 calls the sleep
post_log ==
    /\ pc = "post_log"
    /\ \E outcome \in {"response", "ConnectionError"} :
         IF outcome = "response"
         THEN /\ pc' = "sleep_for"
              /\ sleep_from' = "try"
              /\ slept' = 0
              /\ UNCHANGED exc
         ELSE /\ pc' = "except"
              /\ exc' = outcome
              /\ UNCHANGED <<sleep_from, slept>>
    /\ UNCHANGED <<shutdown_requested, interval, polled_data, agg_vars, db,
                   sig_at, units_after, tick_after, exit_by>>

\* mutant: the handler breaks whether or not a shutdown was requested
lifecycle_except_always_break ==
    /\ pc = "except"
    /\ pc' = "stopped"
    /\ exit_by' = "break"
    /\ exc' = "None"
    /\ UNCHANGED <<shutdown_requested, interval, slept, sleep_from, polled_data,
                   agg_vars, db, sig_at, units_after, tick_after>>

\* the handler, lines 52-58; `e` is unbound when the handler is left
lifecycle_except ==
    /\ pc = "except"
    /\ IF shutdown_requested
       THEN /\ pc' = "stopped"
            /\ exit_by' = "break"
            /\ UNCHANGED <<sleep_from, slept>>
       ELSE /\ pc' = "sleep_for"
            /\ sleep_from' = "except"
            /\ slept' = 0
            /\ UNCHANGED exit_by
    /\ exc' = "None"
    /\ UNCHANGED <<shutdown_requested, interval, polled_data, agg_vars, db,
                   sig_at, units_after, tick_after>>

\* mutant: the loop sleeps without looking at shutdown_requested
interruptible_sleep_for_nocheck ==
    /\ pc = "sleep_for"
    /\ IF slept < interval
       THEN pc' = "sleep_1"
       ELSE pc' = "while"
    /\ UNCHANGED <<shutdown_requested, interval, slept, sleep_from, polled_data, exc,
                   agg_vars, db, sig_at, units_after, tick_after, exit_by>>

\* head of `for _ in range(duration)` and the check of line 32
interruptible_sleep_for ==
    /\ pc = "sleep_for"
    /\ IF slept < interval /\ ~shutdown_requested
       THEN pc' = "sleep_1"
       ELSE pc' = "while"
    /\ UNCHANGED <<shutdown_requested, interval, slept, sleep_from, polled_data, exc,
                   agg_vars, db, sig_at, units_after, tick_after, exit_by>>

\* time.sleep(1) runs its full second (a handled signal does not cut it short)
interruptible_sleep_1 ==
    /\ pc = "sleep_1"
    /\ pc' = "sleep_for"
    /\ slept' = slept + 1
    /\ units_after' = units_after + (IF sig_at # "none" THEN 1 ELSE 0)
    /\ UNCHANGED <<shutdown_requested, interval, sleep_from, polled_data, exc,
                   agg_vars, db, sig_at, tick_after, exit_by>>

\* mutant: the handler ends the process at once (the default disposition)
signal_handler_abort ==
    /\ pc # "stopped"
    /\ shutdown_requested' = TRUE
    /\ sig_at' = IF sig_at = "none" THEN pc ELSE sig_at
    /\ pc' = "stopped"
    /\ exit_by' = "signal"
    /\ UNCHANGED <<interval, slept, sleep_from, polled_data, exc, agg_vars, db,
                   units_after, tick_after>>

\* SIGINT or SIGTERM delivered to the running process
signal_handler ==
    /\ pc # "stopped"
    /\ shutdown_requested' = TRUE
    /\ sig_at' = IF sig_at = "none" THEN pc ELSE sig_at
    /\ UNCHANGED <<pc, interval, slept, sleep_from, polled_data, exc, agg_vars, db,
                   units_after, tick_after, exit_by>>

\* --------------------------------------------------------- specifications
Init ==
    /\ pc = "while"
    /\ shutdown_requested = FALSE
    /\ interval \in (-1)..MaxInterval
    /\ slept = 0
    /\ sleep_from = "none"
    /\ polled_data = NotReturned
    /\ exc = "None"
    /\ apc = "idle"
    /\ cities = <<>>
    /\ sources = <<>>
    /\ k = 0
    /\ result = EmptyDict
    /\ ret = NotReturned
    /\ db \in Databases
    /\ calls = <<>>
    /\ sig_at = "none"
    /\ units_after = 0
    /\ tick_after = FALSE
    /\ exit_by = "none"

LoopStep ==
    \/ lifecycle_while
    \/ get_weather_entry
    \/ fetch_source
    \/ get_weather_return
    \/ lifecycle_polled
    \/ lifecycle_poll_raised
    \/ post_log
    \/ lifecycle_except
    \/ interruptible_sleep_for
    \/ interruptible_sleep_1

Next == LoopStep \/ signal_handler

Spec == Init /\ [][Next]_vars

\* every outbound call returns and the interpreter keeps running
FairSpec == Spec /\ WF_vars(LoopStep)

\* get_weather on its own, called with any bounded arguments
AggInit ==
    /\ pc = "get_weather"
    /\ shutdown_requested = FALSE
    /\ interval = 0
    /\ slept = 0
    /\ sleep_from = "none"
    /\ polled_data = NotReturned
    /\ exc = "None"
    /\ apc = "entry"
    /\ cities \in SeqsUpTo(CityNames, MaxCities)
    /\ sources \in SeqsUpTo(SourceIds, MaxSources)
    /\ k = 0
    /\ result = EmptyDict
    /\ ret = NotReturned
    /\ db \in IF \E n \in DOMAIN sources : sources[n] = 3 THEN Databases ELSE {<<>>}
    /\ calls = <<>>
    /\ sig_at = "none"
    /\ units_after = 0
    /\ tick_after = FALSE
    /\ exit_by = "none"

AggNext ==
    \/ get_weather_entry
    \/ fetch_source
    \/ get_weather_return

AggSpec == AggInit /\ [][AggNext]_vars

\* ---------------------------------------------------------- the claims
WaitPcs == {"sleep_for", "sleep_1"}
TickPcs == {"get_weather", "post_log"}
Range(f) == {f[n] : n \in DOMAIN f}
Valid(sources_) == \A n \in DOMAIN sources_ : sources_[n] \in {1, 2, 3}
KeyOf(s) == <<"source_1_result", "source_2_result", "source_3_result">>[s]

\* C1: a signal delivered during the inter-tick wait (either call site of
\* _interruptible_sleep) lets at most one further one-second sleep complete,
\* starts no tick, and the loop reaches Stopped, whatever the interval.
C1_ShutdownDuringWait ==
    /\ [](sig_at \in WaitPcs =>
             /\ units_after <= 1
             /\ ~tick_after
             /\ pc \in WaitPcs \cup {"while", "stopped"})
    /\ ((sig_at \in WaitPcs) ~> (pc = "stopped"))

C1_Witness ==
    /\ sig_at = "sleep_1"
    /\ sleep_from = "except"
    /\ pc = "stopped"
    /\ units_after = 1
    /\ slept < interval

\* C2: an exception raised during a tick is caught and is not fatal: with no
\* shutdown requested the handler goes on to the inter-tick wait and another
\* tick follows; Stopped is only ever reached with shutdown_requested true.
C2_TickFailureNonFatal ==
    /\ [](pc = "stopped" => shutdown_requested)
    /\ [][(pc = "except" /\ pc' # "except" /\ ~shutdown_requested)
            => (pc' = "sleep_for" /\ sleep_from' = "except" /\ slept' = 0)]_vars
    /\ ((pc = "except" /\ ~shutdown_requested)
            ~> (pc = "get_weather" \/ shutdown_requested))

C2_Witness ==
    /\ pc = "get_weather"
    /\ sleep_from = "except"
    /\ ~shutdown_requested

\* C3: a signal delivered while a tick is in progress does not abort it: the
\* aggregator call and the log post are left only by returning or raising, no
\* further tick is started, and the loop then reaches Stopped.
C3_ShutdownDuringTick ==
    /\ [][(pc = "get_weather" /\ pc' # pc)
            => (apc \in {"returned", "raised"} /\ pc' \in {"post_log", "except"})]_vars
    /\ [][(pc = "post_log" /\ pc' # pc) => pc' \in {"sleep_for", "except"}]_vars
    /\ [](sig_at \in TickPcs => ~tick_after)
    /\ ((sig_at \in TickPcs) ~> (pc = "stopped"))

C3_Witness ==
    /\ sig_at = "get_weather"
    /\ pc = "stopped"
    /\ exit_by = "while"
    /\ sleep_from = "try"
    /\ slept = 0
    /\ units_after = 0

\* C4: non-empty cities and a non-empty source list with an element outside
\* {1,2,3} at any position: get_weather returns exactly the warning "no valid
\* data sources were provided" and invokes no Source Client.
C4_InvalidSourceShortCircuits ==
    (Len(cities) > 0 /\ Len(sources) > 0 /\ ~Valid(sources)) =>
        /\ calls = <<>>
        /\ apc \in {"entry", "returned"}
        /\ apc = "returned" => ret = [warning |-> "no valid data sources were provided"]

C4_Witness ==
    /\ apc = "returned"
    /\ cities = <<"Berlin">>
    /\ sources = <<1, 0, 2>>
    /\ ret = [warning |-> "no valid data sources were provided"]
    /\ calls = <<>>

\* C5: an empty city list, whatever the source list: get_weather returns
\* exactly the warning "no cities were provided" and invokes no Source Client.
C5_NoCities ==
    Len(cities) = 0 =>
        /\ calls = <<>>
        /\ apc \in {"entry", "returned"}
        /\ apc = "returned" => ret = [warning |-> "no cities were provided"]

C5_Witness ==
    /\ apc = "returned"
    /\ cities = <<>>
    /\ sources = <<>>
    /\ ret = [warning |-> "no cities were provided"]

\* C6 as stated: every empty source list gives the warning "no data sources
\* were provided".
C6_Original ==
    (apc = "returned" /\ Len(sources) = 0) =>
        ret = [warning |-> "no data sources were provided"]

\* C6 amended: an empty source list with a non-empty city list gives exactly
\* the warning "no data sources were provided", and no Source Client is invoked.
C6_NoSources ==
    (Len(sources) = 0 /\ Len(cities) > 0) =>
        /\ calls = <<>>
        /\ apc \in {"entry", "returned"}
        /\ apc = "returned" => ret = [warning |-> "no data sources were provided"]

C6_Witness ==
    /\ apc = "returned"
    /\ sources = <<>>
    /\ cities = <<"Berlin", "Sydney">>
    /\ ret = [warning |-> "no data sources were provided"]

\* records of one successful Source Client invocation, by position
FirstIdx(seq, c) == CHOOSE n \in DOMAIN seq : seq[n] = c /\ \A m \in 1..(n - 1) : seq[m] # c

\* every record's city was requested, and records follow the request order
InRequestOrder(cities_, val) ==
    /\ \A a \in DOMAIN val : val[a].city \in Range(cities_)
    /\ \A a, b \in DOMAIN val :
         a < b => FirstIdx(cities_, val[a].city) <= FirstIdx(cities_, val[b].city)

Count(cities_, c) == Cardinality({n \in DOMAIN cities_ : cities_[n] = c})

\* the rows of the file, in file order, each once per request naming its city
RECURSIVE FileOrder(_, _, _)
FileOrder(data, cities_, r) ==
    IF r = 0 THEN <<>>
    ELSE FileOrder(data, cities_, r - 1) \o [n \in 1..Count(cities_, data[r].city) |-> data[r]]

Matches(data, cities_) ==
    {p \in (DOMAIN data) \X (DOMAIN cities_) : data[p[1]].city = cities_[p[2]]}

\* C7 as stated: every Source Client returns its records in the order of the
\* requested city list.
C7_Original ==
    \A j \in DOMAIN calls :
        calls[j].exc = "None" => InRequestOrder(calls[j].cities, calls[j].val)

\* C7 amended: the two remote clients return one record per requested city,
\* the n-th record being the one for the n-th requested city; the local-file
\* client returns the matching rows in file order, each row once per request
\* that names its city.
C7_RecordOrder ==
    \A j \in DOMAIN calls :
        calls[j].exc = "None" =>
            IF calls[j].source = 3
            THEN calls[j].val = FileOrder(db, calls[j].cities, Len(db))
            ELSE /\ Len(calls[j].val) = Len(calls[j].cities)
                 /\ \A n \in DOMAIN calls[j].val : calls[j].val[n].city = calls[j].cities[n]

C7_Witness ==
    /\ cities = <<"Berlin", "Sydney">>
    /\ db = <<Row("Sydney"), Row("Berlin")>>
    /\ \E j \in DOMAIN calls :
         /\ calls[j].source = 3
         /\ calls[j].val = <<Row("Sydney"), Row("Berlin")>>
    /\ \E j \in DOMAIN calls :
         /\ calls[j].source = 1
         /\ calls[j].exc = "None"
         /\ calls[j].val[1].city = "Berlin"
         /\ calls[j].val[2].city = "Sydney"

\* C8 as stated: a valid single-source request that completes has exactly the
\* key of that source, and its value is as long as the city list.
C8_Original ==
    (apc = "returned" /\ Len(cities) > 0 /\ Len(sources) = 1 /\ Valid(sources)) =>
        /\ DOMAIN ret = {KeyOf(sources[1])}
        /\ Len(ret[KeyOf(sources[1])]) = Len(cities)

\* C8 amended: a valid single-source request that completes has exactly the key
\* of that source; for sources 1 and 2 its value is as long as the city list,
\* for source 3 it has one record per (file row, requested city) pair that match.
C8_SingleSource ==
    (apc = "returned" /\ Len(cities) > 0 /\ Len(sources) = 1 /\ Valid(sources)) =>
        /\ DOMAIN ret = {KeyOf(sources[1])}
        /\ Len(ret[KeyOf(sources[1])]) =
              IF sources[1] = 3 THEN Cardinality(Matches(db, cities)) ELSE Len(cities)

C8_Witness ==
    /\ apc = "returned"
    /\ sources = <<3>>
    /\ cities = <<"Berlin", "Sydney">>
    /\ db = <<Row("Sydney")>>
    /\ DOMAIN ret = {"source_3_result"}
    /\ Len(ret["source_3_result"]) = 1

\* C9 as stated: Stopped is reached only by the while condition evaluating to
\* false.
C9_Original == [][(pc' = "stopped" /\ pc # "stopped") => pc = "while"]_vars

\* C9 amended: Stopped is reached only with shutdown_requested true, either by
\* the while condition evaluating to false or by the break of the exception
\* handler; no other control path leaves the loop.
C9_StoppedOnlyOnShutdown ==
    [][(pc' = "stopped" /\ pc # "stopped") =>
          /\ shutdown_requested
          /\ \/ pc = "while" /\ exit_by' = "while"
             \/ pc = "except" /\ exit_by' = "break"]_vars

C9_Witness ==
    /\ pc = "stopped"
    /\ exit_by = "break"
    /\ shutdown_requested

\* C10: for non-empty cities and a non-empty list of valid identifiers the
\* clients are invoked one at a time, once per element of the list in list
\* order, each with the full city list; the returned map has one key per
\* distinct identifier, holding the result of its last invocation.
C10_OncePerElementLastWins ==
    (Len(cities) > 0 /\ Len(sources) > 0 /\ Valid(sources)) =>
        /\ Len(calls) <= Len(sources)
        /\ \A j \in DOMAIN calls :
             /\ calls[j].source = sources[j]
             /\ calls[j].cities = cities
             /\ j < Len(calls) => calls[j].exc = "None"
        /\ apc = "fetch" => Len(calls) = k - 1
        /\ apc = "returned" =>
             /\ Len(calls) = Len(sources)
             /\ DOMAIN ret = {KeyOf(sources[j]) : j \in DOMAIN sources}
             /\ \A j \in DOMAIN sources :
                  (\A m \in (j + 1)..Len(sources) : sources[m] # sources[j])
                      => ret[KeyOf(sources[j])] = calls[j].val

C10_Witness ==
    /\ apc = "returned"
    /\ sources = <<1, 1, 2>>
    /\ Len(calls) = 3
    /\ calls[1].val # calls[2].val
    /\ DOMAIN ret = {"source_1_result", "source_2_result"}
    /\ ret["source_1_result"] = calls[2].val

====
